---------------------------- MODULE Spec2Model ----------------------------
(***************************************************************************)
(* Model of the Feather garage controller (src/code.py, src/config.py).    *)
(*                                                                         *)
(* The program is a set of asyncio tasks on one cooperative thread.  A     *)
(* step of the model is what one task (or one callback) executes between   *)
(* two of its await points; nothing else runs in between.  Which ready     *)
(* task runs next is left open: the CircuitPython scheduler orders tasks   *)
(* by their millisecond wake-up tick and, for equal ticks, by the shape of *)
(* its pairing heap.                                                       *)
(*                                                                         *)
(* Time is time.monotonic() in whole seconds.  Task code takes no time;    *)
(* Tick moves the clock to the next instant at which a sleeping task is    *)
(* due, and a due task runs before the clock moves again.  The sensors     *)
(* (pir, distance), the RTC hour, the MQTT link and the broker are the     *)
(* environment: they may change or answer in any way at every instant.     *)
(*                                                                         *)
(* get_sensor_data and get_system_data only publish telemetry, touch no    *)
(* shared state and are left out; their effect on the device (a restart on *)
(* a link fault) is the one mqtt_publish_loop has.                         *)
(*                                                                         *)
(* Spec is the device in its first seconds, with door requests arriving.   *)
(* StuckDoorSpec is the device with an opener that fails, over a run long  *)
(* enough for the motion timeout and the error backoff.  BrokerSpec is the *)
(* device with the broker's bookkeeping of one door request.  HoursSpec is *)
(* the device left alone, at every hour of the day.                        *)
(***************************************************************************)
EXTENDS Integers, Sequences, FiniteSets, TLC

VARIABLES
    door_error,         \* garage_state.door_error
    motion,             \* garage_state.motion: None, True or False
    door_status,        \* garage_state.door_status
    motion_timeout,     \* garage_state.motion_timeout
    pause_door_check,   \* garage_state.pause_door_check
    relay,              \* relay.value
    now,                \* time.monotonic()
    hour,               \* rtc.datetime.tm_hour
    pir,                \* pir.value
    distance,           \* hcsr04.distance
    acts,               \* the activate_opener tasks created and not finished
    polpc,              \* position of the check_open_time task
    polWake,            \* its wake-up time while it sleeps
    rtcpc,              \* position of the update_rtc task
    mqttpc,             \* position of the mqtt_client_loop task
    pubWake,            \* wake-up time of the mqtt_publish_loop task
    phase,              \* "running", "reset" (microcontroller.reset()), "crashed"
    pubcalls,           \* the publish_to_mqtt calls of the last step
    linkops,            \* the mqtt_client operations of the last step
    linkres,            \* how each of them ended: "ok", "mmqtt" or "oserror"
    broker              \* the door request at the broker and on its way here

vars == << door_error, motion, door_status, motion_timeout, pause_door_check,
           relay, now, hour, pir, distance, acts, polpc, polWake, rtcpc,
           mqttpc, pubWake, phase, pubcalls, linkops, linkres, broker >>

----------------------------------------------------------------------------
(* Bounds of the model *)

\* the clock stops advancing here
MaxTime == 20

\* door requests whose activation may be in flight at once
MaxRemote == 1

\* door requests a remote party makes (BrokerSpec)
MaxRequests == 1

\* copies of a door request on their way to the device at once (BrokerSpec)
MaxCopies == 2

\* where the clock stops in the runs that cover the motion timeout and the
\* error backoff
MaxLongTime == 1000

----------------------------------------------------------------------------
(* Configuration, src/config.py *)

DOOR_CLOSE_DELAY == 12
MOTION_TIMEOUT == 300
DOOR_DISTANCE == 90
GARAGE_CLOSE_AFTER == 20
GARAGE_CLOSE_BEFORE == 7

\* asyncio.sleep(2) of activate_opener
PULSE_SECONDS == 2
\* the 900 of check_open_time
ERROR_BACKOFF == 900
\* asyncio.sleep(60) of mqtt_publish_loop
PUBLISH_INTERVAL == 60

----------------------------------------------------------------------------
(* Values *)

None == "None"

\* Python's True and False where a field also takes None
True == "True"
False == "False"

\* what get_door_state() evaluates to when it is called and not awaited
Coroutine == "<coroutine get_door_state>"

Hours == {7, 8, 19, 20}

\* every value of tm_hour
AllHours == 0 .. 23

\* readings of the distance sensor, on both sides of DOOR_DISTANCE
Distances == {89, 90}

MQTT_GARAGE_STATE == "/garage-state"
MQTT_DOOR_REQUEST == "/door-request"
MQTT_ENVIRONMENT == "/environment"

\* what the broker may deliver in one mqtt_client.loop()
NoMessage == [topic |-> "", message |-> ""]
Messages == { [topic |-> t, message |-> p] :
                t \in {MQTT_DOOR_REQUEST, MQTT_ENVIRONMENT}, p \in {"True", "False"} }

\* outcomes of one mqtt_client operation
LinkOutcomes == {"ok", "mmqtt", "oserror"}

\* The door request at the broker: how many requests ("True" on the
\* door-request topic) remote parties have published, how many copies of
\* "True" the broker has sent that mqtt_client.loop() has not handed to the
\* callback yet, and whether the retained value is still "True" (the "False"
\* the callback publishes has not arrived).
NoRequest == [requests |-> 0, inbox |-> 0, unacked |-> FALSE]

----------------------------------------------------------------------------
(* Payloads *)

\* a plain text payload
Text(s) ==
    [kind |-> "text", text |-> s, door_status |-> None, door_error |-> FALSE,
     motion |-> None]

\* Garage_state.json: json.dumps of the three published fields
Json(st, err, mo) ==
    [kind |-> "json", text |-> "", door_status |-> st, door_error |-> err,
     motion |-> mo]

\* json.dumps(garage_state) of check_open_time: the object itself is handed to
\* json.dumps, which on CircuitPython writes the object's repr
DumpsObject == Text("<Garage_state object>")

----------------------------------------------------------------------------
(* The MQTT link: publish_to_mqtt and the wrapper of mqtt_client_loop *)

\* the try/except part: is_connected(), and reconnect() after an MMQTTException
\*   c: outcome of is_connected(), r: outcome of reconnect()
\* (a variant: a failed reconnect() is let through)
ConnCheckKeepsGoing(c, r) ==
    IF c = "ok" THEN [ops |-> << "is_connected" >>, res |-> << c >>, reset |-> FALSE]
    ELSE IF c = "mmqtt"
         THEN [ops |-> << "is_connected", "reconnect" >>, res |-> << c, r >>,
               reset |-> FALSE]
         ELSE [ops |-> << "is_connected" >>, res |-> << c >>, reset |-> TRUE]

\* (a variant: every exception of is_connected() leads to reconnect())
ConnCheckReconnectsAlways(c, r) ==
    IF c = "ok" THEN [ops |-> << "is_connected" >>, res |-> << c >>, reset |-> FALSE]
    ELSE [ops |-> << "is_connected", "reconnect" >>, res |-> << c, r >>,
          reset |-> (r # "ok")]

ConnCheck(c, r) ==
    IF c = "ok" THEN [ops |-> << "is_connected" >>, res |-> << c >>, reset |-> FALSE]
    ELSE IF c = "mmqtt"
         THEN [ops |-> << "is_connected", "reconnect" >>, res |-> << c, r >>,
               reset |-> (r # "ok")]
         ELSE [ops |-> << "is_connected" >>, res |-> << c >>, reset |-> TRUE]

\* publish_to_mqtt(topic, message); p: outcome of mqtt_client.publish().
\* microcontroller.reset() does not return, so nothing follows it.
publish_to_mqtt(topic, message, c, r, p) ==
    LET cc == ConnCheck(c, r)
        call == [topic |-> topic, message |-> message]
    IN  IF cc.reset
        THEN [ops |-> cc.ops, res |-> cc.res, reset |-> TRUE, calls |-> << call >>]
        ELSE [ops |-> Append(cc.ops, "publish"), res |-> Append(cc.res, p),
              reset |-> (p # "ok"), calls |-> << call >>]

\* the link behaviours during one publish_to_mqtt: an operation that is not
\* reached has no outcome
PublishInputs ==
    { x \in LinkOutcomes \X LinkOutcomes \X LinkOutcomes :
        /\ x[1] # "mmqtt" => x[2] = "ok"
        /\ ConnCheck(x[1], x[2]).reset => x[3] = "ok" }

\* no call of publish_to_mqtt
NoPublish == [ops |-> << >>, res |-> << >>, reset |-> FALSE, calls |-> << >>]

----------------------------------------------------------------------------
(* Pure parts of the tasks *)

\* Classify with the comparison off by one
ClassifyInclusive(d) == IF d <= DOOR_DISTANCE THEN "Open" ELSE "Closed"

\* get_door_state: the classification of one reading
Classify(d) == IF d < DOOR_DISTANCE THEN "Open" ELSE "Closed"

\* DoorCheckSkipped without the test of the flag
DoorCheckNeverSkipped(paused) == FALSE

\* get_door_state: the iteration is skipped
DoorCheckSkipped(paused) == paused

\* get_door_state: the publish condition
DoorChanged(previous, current) == previous # current

\* (a variant: the window ends before GARAGE_CLOSE_BEFORE)
InCloseWindowStrict(h) == h >= GARAGE_CLOSE_AFTER \/ h < GARAGE_CLOSE_BEFORE

\* check_open_time: the close-window test
InCloseWindow(h) == h >= GARAGE_CLOSE_AFTER \/ h <= GARAGE_CLOSE_BEFORE

\* ShouldClose with "not garage_state.motion" for "garage_state.motion is False"
ShouldCloseUnlessMotion(h, st, err, mo) ==
    /\ InCloseWindow(h)
    /\ st = "Open"
    /\ err = FALSE
    /\ mo # True

\* check_open_time: the guards in front of the activation
ShouldClose(h, st, err, mo) ==
    /\ InCloseWindow(h)
    /\ st = "Open"
    /\ err = FALSE
    /\ mo = False

\* check_open_time: what the re-read of the door position assigns
RereadDoorStatus(d) == Coroutine

\* get_motion_state: the deadline after the presence test
MotionTimeoutAfter(p, t, mt) == IF p THEN t + MOTION_TIMEOUT ELSE mt

\* (a variant: the deadline itself already clears the flag)
MotionAfterInclusive(p, t, mt, mo) ==
    IF t >= MotionTimeoutAfter(p, t, mt) THEN False
    ELSE IF p THEN True ELSE mo

\* get_motion_state: the flag after one iteration
MotionAfter(p, t, mt, mo) ==
    IF t > MotionTimeoutAfter(p, t, mt) THEN False
    ELSE IF p THEN True ELSE mo

----------------------------------------------------------------------------
(* Scheduling helpers *)

Min(S) == CHOOSE x \in S : \A y \in S : x <= y

\* sequence q without its i-th element
RemoveAt(q, i) == [j \in 1 .. (Len(q) - 1) |-> IF j < i THEN q[j] ELSE q[j + 1]]

\* asyncio.create_task(activate_opener()) by "remote" or "policy"
NewActivation(by) == [by |-> by, pc |-> "new", wake |-> 0]

RemoteInFlight == Cardinality({i \in 1 .. Len(acts) : acts[i].by = "remote"})

\* wake-up times of the tasks inside asyncio.sleep(n), n > 0
Wakes ==
    {pubWake}
        \cup (IF polpc = "sleep" THEN {polWake} ELSE {})
        \cup {acts[i].wake : i \in {j \in 1 .. Len(acts) : acts[j].pc # "new"}}

\* a task that the scheduler runs before the clock moves on
Due ==
    \/ polpc = "start"
    \/ rtcpc = "start"
    \/ mqttpc = "ready"
    \/ \E i \in 1 .. Len(acts) : acts[i].pc = "new"
    \/ \E w \in Wakes : w <= now

\* the end of a step: the observations, and the device going down on a reset
Finish(link) ==
    /\ pubcalls' = link.calls
    /\ linkops' = link.ops
    /\ linkres' = link.res
    /\ phase' = IF link.reset THEN "reset" ELSE "running"

\* an unhandled exception ends asyncio.run(main())
Crash ==
    /\ pubcalls' = << >>
    /\ linkops' = << >>
    /\ linkres' = << >>
    /\ phase' = "crashed"

----------------------------------------------------------------------------
(* Construction: module level of code.py up to asyncio.run(main()), and main *)

Boot ==
    /\ door_error = FALSE
    /\ motion = None
    /\ door_status = None
    /\ motion_timeout = 0
    /\ pause_door_check = FALSE
    /\ relay = FALSE
    /\ now = 1          \* time.monotonic() is positive once the network is up
    /\ acts = << >>
    /\ polpc = "start"
    /\ polWake = 0
    /\ rtcpc = "start"
    /\ mqttpc = "ready"
    /\ pubWake = 1
    /\ phase = "running"
    /\ pubcalls = << >>
    /\ linkops = << >>
    /\ linkres = << >>
    /\ broker = NoRequest

Init ==
    /\ Boot
    /\ hour \in Hours
    /\ pir \in BOOLEAN
    /\ distance \in Distances

----------------------------------------------------------------------------
(* activate_opener *)

\* lines 56-58: up to the first sleep
ActivateStart(i) ==
    /\ phase = "running"
    /\ acts[i].pc = "new"
    /\ pause_door_check' = TRUE
    /\ relay' = TRUE
    /\ acts' = [acts EXCEPT ![i] = [@ EXCEPT !.pc = "pulse", !.wake = now + PULSE_SECONDS]]
    /\ Finish(NoPublish)
    /\ UNCHANGED << broker, door_error, motion, door_status, motion_timeout, now, hour,
                    pir, distance, polpc, polWake, rtcpc, mqttpc, pubWake >>

\* lines 59-60: the end of the pulse
ActivateRelease(i) ==
    /\ phase = "running"
    /\ acts[i].pc = "pulse"
    /\ acts[i].wake <= now
    /\ relay' = FALSE
    /\ acts' = [acts EXCEPT ![i] = [@ EXCEPT !.pc = "settle", !.wake = now + DOOR_CLOSE_DELAY]]
    /\ Finish(NoPublish)
    /\ UNCHANGED << broker, door_error, motion, door_status, motion_timeout,
                    pause_door_check, now, hour, pir, distance, polpc, polWake,
                    rtcpc, mqttpc, pubWake >>

\* line 61: the end of the settle delay
ActivateDone(i) ==
    /\ phase = "running"
    /\ acts[i].pc = "settle"
    /\ acts[i].wake <= now
    /\ pause_door_check' = FALSE
    /\ acts' = RemoveAt(acts, i)
    /\ Finish(NoPublish)
    /\ UNCHANGED << broker, door_error, motion, door_status, motion_timeout, relay, now,
                    hour, pir, distance, polpc, polWake, rtcpc, mqttpc, pubWake >>

activate_opener == \E i \in 1 .. Len(acts) :
    ActivateStart(i) \/ ActivateRelease(i) \/ ActivateDone(i)

----------------------------------------------------------------------------
(* get_motion_state: one iteration of the loop *)

get_motion_state ==
    /\ phase = "running"
    /\ motion_timeout' = MotionTimeoutAfter(pir, now, motion_timeout)
    /\ motion' = MotionAfter(pir, now, motion_timeout, motion)
    /\ Finish(NoPublish)
    /\ UNCHANGED << broker, door_error, door_status, pause_door_check, relay, now, hour,
                    pir, distance, acts, polpc, polWake, rtcpc, mqttpc, pubWake >>

----------------------------------------------------------------------------
(* get_door_state: one iteration of the loop, from the return of sleep(0) *)

get_door_state ==
    /\ phase = "running"
    /\ IF DoorCheckSkipped(pause_door_check)
       THEN /\ Finish(NoPublish)
            /\ UNCHANGED door_status
       ELSE \/ /\ Crash       \* hcsr04.distance raises RuntimeError: no echo
               /\ UNCHANGED door_status
            \/ /\ door_status' = Classify(distance)
               /\ IF DoorChanged(door_status, door_status')
                  THEN \E x \in PublishInputs :
                          Finish(publish_to_mqtt(MQTT_GARAGE_STATE,
                                                 Json(door_status', door_error, motion),
                                                 x[1], x[2], x[3]))
                  ELSE Finish(NoPublish)
    /\ UNCHANGED << broker, door_error, motion, motion_timeout, pause_door_check, relay,
                    now, hour, pir, distance, acts, polpc, polWake, rtcpc,
                    mqttpc, pubWake >>

----------------------------------------------------------------------------
(* check_open_time *)

\* lines 221-229 and 235-236: the evaluation, up to the sleep or the return.
\* door_error_time is a local name that nothing has bound when the elif reads it.
check_open_time_eval ==
    /\ phase = "running"
    /\ polpc = "start"
    /\ IF ShouldClose(hour, door_status, door_error, motion)
       THEN /\ acts' = Append(acts, NewActivation("policy"))
            /\ polpc' = "sleep"
            /\ polWake' = now + DOOR_CLOSE_DELAY
            /\ Finish(NoPublish)
       ELSE IF InCloseWindow(hour) /\ door_status = "Open" /\ door_error # FALSE
       THEN /\ Crash
            /\ UNCHANGED << acts, polpc, polWake >>
       ELSE /\ polpc' = "done"
            /\ Finish(NoPublish)
            /\ UNCHANGED << acts, polWake >>
    /\ UNCHANGED << broker, door_error, motion, door_status, motion_timeout,
                    pause_door_check, relay, now, hour, pir, distance, rtcpc,
                    mqttpc, pubWake >>

\* lines 230-234: after the sleep
check_open_time_reread ==
    /\ phase = "running"
    /\ polpc = "sleep"
    /\ polWake <= now
    /\ door_status' = RereadDoorStatus(distance)
    /\ door_error' = IF door_status' = "Open" THEN TRUE ELSE door_error
    /\ polpc' = "done"
    /\ \E x \in PublishInputs :
            Finish(publish_to_mqtt(MQTT_GARAGE_STATE, DumpsObject, x[1], x[2], x[3]))
    /\ UNCHANGED << broker, motion, motion_timeout, pause_door_check, relay, now, hour,
                    pir, distance, acts, polWake, rtcpc, mqttpc, pubWake >>

----------------------------------------------------------------------------
(* message: the on_message callback, called from inside mqtt_client.loop() *)

\* the link record of the callback and whether it creates an activation
message(m, c, r, p) ==
    IF m.topic = MQTT_DOOR_REQUEST /\ m.message = "True"
    THEN LET pb == publish_to_mqtt(MQTT_DOOR_REQUEST, Text("False"), c, r, p)
         IN  [link |-> pb, spawn |-> ~pb.reset]
    ELSE [link |-> NoPublish, spawn |-> FALSE]

\* what the broker may deliver now
Deliverable ==
    {NoMessage} \cup
    {m \in Messages :
        (m.topic = MQTT_DOOR_REQUEST /\ m.message = "True")
            => RemoteInFlight < MaxRemote}

----------------------------------------------------------------------------
(* mqtt_client_loop: one iteration of the loop *)

\*   c, r: is_connected() and reconnect();  l: mqtt_client.loop();
\*   m: the message loop() hands to the callback;  c2, r2, p2: the link during
\*   the callback's publish_to_mqtt
LoopLink(c, r, l, m, c2, r2, p2) ==
    LET cc == ConnCheck(c, r)
        cb == message(m, c2, r2, p2)
    IN  IF cc.reset
        THEN [ops |-> cc.ops, res |-> cc.res, reset |-> TRUE, calls |-> << >>,
              spawn |-> FALSE]
        ELSE IF l # "ok"
        THEN [ops |-> Append(cc.ops, "loop"), res |-> Append(cc.res, l),
              reset |-> TRUE, calls |-> << >>, spawn |-> FALSE]
        ELSE [ops |-> Append(cc.ops, "loop") \o cb.link.ops,
              res |-> Append(cc.res, l) \o cb.link.res,
              reset |-> cb.link.reset, calls |-> cb.link.calls,
              spawn |-> cb.spawn]

\* the link and broker behaviours during one iteration, pruned like PublishInputs
LoopInputs ==
    { y \in (LinkOutcomes \X LinkOutcomes \X LinkOutcomes)
                \X (Messages \cup {NoMessage}) \X PublishInputs :
        /\ y[1][1] # "mmqtt" => y[1][2] = "ok"
        /\ ConnCheck(y[1][1], y[1][2]).reset => y[1][3] = "ok"
        /\ (ConnCheck(y[1][1], y[1][2]).reset \/ y[1][3] # "ok") => y[2] = NoMessage
        /\ ~(y[2].topic = MQTT_DOOR_REQUEST /\ y[2].message = "True")
                => y[3] = << "ok", "ok", "ok" >> }

\* deliverable: what the broker may hand over in this iteration
ClientLoop(deliverable) ==
    /\ phase = "running"
    /\ mqttpc = "ready"
    /\ \E y \in LoopInputs :
          LET ll == LoopLink(y[1][1], y[1][2], y[1][3], y[2],
                             y[3][1], y[3][2], y[3][3])
          IN  /\ y[2] \in deliverable
              /\ acts' = IF ll.spawn THEN Append(acts, NewActivation("remote"))
                         ELSE acts
              /\ Finish(ll)
    /\ mqttpc' = "sleep"
    /\ UNCHANGED << broker, door_error, motion, door_status, motion_timeout,
                    pause_door_check, relay, now, hour, pir, distance, polpc,
                    polWake, rtcpc, pubWake >>

mqtt_client_loop == ClientLoop(Deliverable)

\* the same task while nobody asks for the door
mqtt_client_loop_idle ==
    ClientLoop({m \in Deliverable : m.topic # MQTT_DOOR_REQUEST \/ m.message # "True"})

----------------------------------------------------------------------------
(* mqtt_publish_loop: one iteration of the loop *)

mqtt_publish_loop ==
    /\ phase = "running"
    /\ pubWake <= now
    /\ pubWake' = now + PUBLISH_INTERVAL
    /\ \E x \in PublishInputs :
            Finish(publish_to_mqtt(MQTT_GARAGE_STATE,
                                   Json(door_status, door_error, motion),
                                   x[1], x[2], x[3]))
    /\ UNCHANGED << broker, door_error, motion, door_status, motion_timeout,
                    pause_door_check, relay, now, hour, pir, distance, acts,
                    polpc, polWake, rtcpc, mqttpc >>

----------------------------------------------------------------------------
(* update_rtc: sets the RTC from the time service, or fails in the request *)

update_rtc ==
    /\ phase = "running"
    /\ rtcpc = "start"
    /\ rtcpc' = "done"
    /\ \/ /\ hour' \in Hours
          /\ Finish(NoPublish)
       \/ /\ Crash
          /\ UNCHANGED hour
    /\ UNCHANGED << broker, door_error, motion, door_status, motion_timeout,
                    pause_door_check, relay, now, pir, distance, acts, polpc,
                    polWake, mqttpc, pubWake >>

----------------------------------------------------------------------------
(* The environment *)

\* somebody enters or leaves the range of the presence sensor
Presence ==
    /\ phase = "running"
    /\ pir' = ~pir
    /\ Finish(NoPublish)
    /\ UNCHANGED << broker, door_error, motion, door_status, motion_timeout,
                    pause_door_check, relay, now, hour, distance, acts, polpc,
                    polWake, rtcpc, mqttpc, pubWake >>

\* the door moves
DoorMoves ==
    /\ phase = "running"
    /\ distance' \in Distances \ {distance}
    /\ Finish(NoPublish)
    /\ UNCHANGED << broker, door_error, motion, door_status, motion_timeout,
                    pause_door_check, relay, now, hour, pir, acts, polpc,
                    polWake, rtcpc, mqttpc, pubWake >>

\* the clock moves to the next wake-up; mqtt_client_loop's sleep(1) is over by then
TickTo(limit) ==
    /\ phase = "running"
    /\ ~Due
    /\ Min(Wakes) <= limit
    /\ now' = Min(Wakes)
    /\ mqttpc' = "ready"
    /\ Finish(NoPublish)
    /\ UNCHANGED << broker, door_error, motion, door_status, motion_timeout,
                    pause_door_check, relay, hour, pir, distance, acts, polpc,
                    polWake, rtcpc, pubWake >>

Tick == TickTo(MaxTime)

LongTick == TickTo(MaxLongTime)

\* microcontroller.reset(): the program starts again from the top
Restart ==
    /\ phase = "reset"
    /\ door_error' = FALSE
    /\ motion' = None
    /\ door_status' = None
    /\ motion_timeout' = 0
    /\ pause_door_check' = FALSE
    /\ relay' = FALSE
    /\ now' = 1
    /\ acts' = << >>
    /\ polpc' = "start"
    /\ polWake' = 0
    /\ rtcpc' = "start"
    /\ mqttpc' = "ready"
    /\ pubWake' = 1
    /\ Finish(NoPublish)
    \* mqtt_client.subscribe(MQTT_DOOR_REQUEST): the retained value comes again
    /\ broker' = [broker EXCEPT !.inbox = IF broker.unacked THEN 1 ELSE 0]
    /\ UNCHANGED << hour, pir, distance >>

----------------------------------------------------------------------------

Next ==
    \/ activate_opener
    \/ get_motion_state
    \/ get_door_state
    \/ check_open_time_eval
    \/ check_open_time_reread
    \/ mqtt_client_loop
    \/ mqtt_publish_loop
    \/ update_rtc
    \/ Presence
    \/ DoorMoves
    \/ Tick
    \/ Restart

Spec == Init /\ [][Next]_vars

\* The opener that fails: the door is open and stays where it is, whatever the
\* relay does, nobody asks for the door remotely, and the run is long enough
\* for the motion timeout and the error backoff to pass.
StuckInit ==
    /\ Boot
    /\ hour \in Hours
    /\ pir \in BOOLEAN
    /\ distance \in {d \in Distances : d < DOOR_DISTANCE}

StuckNext ==
    \/ activate_opener
    \/ get_motion_state
    \/ get_door_state
    \/ check_open_time_eval
    \/ check_open_time_reread
    \/ mqtt_client_loop_idle
    \/ mqtt_publish_loop
    \/ update_rtc
    \/ Presence
    \/ LongTick
    \/ Restart

StuckDoorSpec == StuckInit /\ [][StuckNext]_vars

----------------------------------------------------------------------------
(* The device and the broker's bookkeeping of a door request *)

\* a remote party publishes "True" on the door-request topic, retained
Request ==
    /\ phase = "running"
    /\ broker.requests < MaxRequests
    /\ broker.inbox < MaxCopies
    /\ broker' = [requests |-> broker.requests + 1, inbox |-> broker.inbox + 1,
                  unacked |-> TRUE]
    /\ Finish(NoPublish)
    /\ UNCHANGED << door_error, motion, door_status, motion_timeout,
                    pause_door_check, relay, now, hour, pir, distance, acts,
                    polpc, polWake, rtcpc, mqttpc, pubWake >>

\* the broker sends the retained "True" once more before the "False" has
\* reached it (a re-subscription, as mqtt_client.reconnect() makes one)
Redeliver ==
    /\ phase = "running"
    /\ broker.unacked
    /\ broker.inbox < MaxCopies
    /\ broker' = [broker EXCEPT !.inbox = @ + 1]
    /\ Finish(NoPublish)
    /\ UNCHANGED << door_error, motion, door_status, motion_timeout,
                    pause_door_check, relay, now, hour, pir, distance, acts,
                    polpc, polWake, rtcpc, mqttpc, pubWake >>

RequestMessage == [topic |-> MQTT_DOOR_REQUEST, message |-> "True"]

\* mqtt_client_loop when loop() hands over what the broker has sent
mqtt_client_loop_broker ==
    /\ phase = "running"
    /\ mqttpc = "ready"
    /\ \E y \in LoopInputs :
          LET ll == LoopLink(y[1][1], y[1][2], y[1][3], y[2],
                             y[3][1], y[3][2], y[3][3])
          IN  /\ \/ y[2] = NoMessage
                 \/ y[2] = RequestMessage /\ broker.inbox > 0
              /\ acts' = IF ll.spawn THEN Append(acts, NewActivation("remote"))
                         ELSE acts
              /\ broker' = [broker EXCEPT
                               !.inbox = IF y[2] = RequestMessage THEN @ - 1 ELSE @,
                               !.unacked = IF ll.spawn THEN FALSE ELSE @]
              /\ Finish(ll)
    /\ mqttpc' = "sleep"
    /\ UNCHANGED << door_error, motion, door_status, motion_timeout,
                    pause_door_check, relay, now, hour, pir, distance, polpc,
                    polWake, rtcpc, pubWake >>

BrokerNext ==
    \/ activate_opener
    \/ get_motion_state
    \/ get_door_state
    \/ check_open_time_eval
    \/ check_open_time_reread
    \/ mqtt_client_loop_broker
    \/ mqtt_publish_loop
    \/ update_rtc
    \/ Request
    \/ Redeliver
    \/ Tick
    \/ Restart

BrokerSpec == Init /\ [][BrokerNext]_vars

----------------------------------------------------------------------------
(* The device at every hour of the day, left alone: nobody asks for the door,
   and the door and the presence sensor stay as they are *)

HoursInit ==
    /\ Boot
    /\ hour \in AllHours
    /\ pir \in BOOLEAN
    /\ distance \in Distances

\* update_rtc with any hour in the answer
update_rtc_any_hour ==
    /\ phase = "running"
    /\ rtcpc = "start"
    /\ rtcpc' = "done"
    /\ \/ /\ hour' \in AllHours
          /\ Finish(NoPublish)
       \/ /\ Crash
          /\ UNCHANGED hour
    /\ UNCHANGED << broker, door_error, motion, door_status, motion_timeout,
                    pause_door_check, relay, now, pir, distance, acts, polpc,
                    polWake, mqttpc, pubWake >>

HoursNext ==
    \/ activate_opener
    \/ get_motion_state
    \/ get_door_state
    \/ check_open_time_eval
    \/ check_open_time_reread
    \/ mqtt_client_loop_idle
    \/ mqtt_publish_loop
    \/ update_rtc_any_hour
    \/ Tick
    \/ Restart

HoursSpec == HoursInit /\ [][HoursNext]_vars

----------------------------------------------------------------------------
(* Vocabulary of the properties *)

\* the activations that have set pause_door_check and not yet cleared it
Started == {i \in 1 .. Len(acts) : acts[i].pc \in {"pulse", "settle"}}

\* this step creates an activate_opener task on behalf of `by`
Creates(by) ==
    /\ Len(acts') = Len(acts) + 1
    /\ acts'[Len(acts')].by = by

\* the snapshot get_door_state publishes after this step
SnapshotCall ==
    [topic |-> MQTT_GARAGE_STATE,
     message |-> Json(door_status', door_error', motion')]

\* everything the policy asks for before it closes the door
Eligible ==
    /\ phase = "running"
    /\ hour >= GARAGE_CLOSE_AFTER \/ hour <= GARAGE_CLOSE_BEFORE
    /\ door_status = "Open"
    /\ door_error = FALSE
    /\ motion = False

----------------------------------------------------------------------------
(* C1 *)

\* C1: every activation the auto-close policy creates is created by an
\* evaluation at which motion is exactly False, door_status is "Open",
\* door_error is False and the hour is inside the close window; never with
\* motion True or None.
C1_PolicyClosesOnlyWithoutMotion ==
    [][Creates("policy") =>
            /\ motion = False
            /\ door_status = "Open"
            /\ door_error = FALSE
            /\ (hour >= GARAGE_CLOSE_AFTER \/ hour <= GARAGE_CLOSE_BEFORE)]_vars

\* the policy's activation is pulsing the relay
C1_Witness ==
    \E i \in 1 .. Len(acts) : acts[i].by = "policy" /\ acts[i].pc = "pulse" /\ relay

----------------------------------------------------------------------------
(* C2 *)

\* C2: at most one activate_opener invocation is in flight (has started and
\* not completed) at any time.
C2_AtMostOneActivation == Cardinality(Started) <= 1

----------------------------------------------------------------------------
(* C3 *)

\* C3: whenever an activation is in flight (it has set pause_door_check and has
\* not yet cleared it), pause_door_check is true.
C3_PausedWhileInFlight == (Started # {}) => pause_door_check

----------------------------------------------------------------------------
(* C4 *)

\* C4: an iteration of the Door Position Monitor that finds pause_door_check
\* true neither writes door_status nor publishes, whatever the sensor reads.
C4_PausedMonitorIsSilent ==
    [][(get_door_state /\ pause_door_check) =>
            /\ door_status' = door_status
            /\ pubcalls' = << >>
            /\ linkops' = << >>]_vars

\* the monitor runs paused while the sensor contradicts the stored status
C4_Witness ==
    /\ phase = "running"
    /\ pause_door_check
    /\ door_status \in {"Open", "Closed"}
    /\ door_status # (IF distance < DOOR_DISTANCE THEN "Open" ELSE "Closed")
    /\ pubcalls = << >>

----------------------------------------------------------------------------
(* C5 *)

\* C5: an unpaused iteration of the Door Position Monitor that takes a reading
\* d sets door_status to "Open" if d < DOOR_DISTANCE and to "Closed" otherwise,
\* and calls publish_to_mqtt with the garage-state snapshot if and only if the
\* new value differs from the value door_status held before the iteration.
C5_ClassifyAndPublishOnChange ==
    [][(get_door_state /\ ~pause_door_check /\ phase' # "crashed") =>
            /\ distance < DOOR_DISTANCE => door_status' = "Open"
            /\ distance >= DOOR_DISTANCE => door_status' = "Closed"
            /\ (door_status' # door_status) => pubcalls' = << SnapshotCall >>
            /\ (door_status' = door_status) => pubcalls' = << >>]_vars

\* a reading at the threshold has been classified "Closed" and published
C5_Witness ==
    /\ phase = "running"
    /\ now > 1
    /\ door_status = "Closed"
    /\ distance = DOOR_DISTANCE
    /\ pubcalls = << [topic |-> MQTT_GARAGE_STATE,
                      message |-> Json("Closed", door_error, motion)] >>
    /\ linkops = << "is_connected", "publish" >>

----------------------------------------------------------------------------
(* C6 *)

\* C6: door_status is written only by the Door Position Monitor, with a value
\* classified from a reading: in every reachable state it is unset, "Open" or
\* "Closed".
C6_DoorStatusIsClassified == door_status \in {None, "Open", "Closed"}

----------------------------------------------------------------------------
(* C7 *)

\* C7: once door_error has been set by a failed auto-close, the policy creates
\* no activation before the backoff has passed; door_error stays set for all
\* of the backoff, so no activation is created while it is set.
C7_NoRetryWhileError == [][door_error => ~Creates("policy")]_vars

\* the flag C7 speaks of is never set: the policy compares the coroutine it
\* has just assigned with "Open"
DoorErrorNeverSet == door_error = FALSE

----------------------------------------------------------------------------
(* C8 *)

\* C8: the error backoff ends.  More than ERROR_BACKOFF seconds after an
\* auto-close that failed (the policy woke from its sleep at polWake and the
\* door had not moved), with the door open in the close window and no motion,
\* door_error is clear and the policy is there to retry: it has not returned
\* for good.
C8_BackoffEndsAndPolicyRetries ==
    (/\ polWake > 0
     /\ now > polWake + ERROR_BACKOFF
     /\ distance < DOOR_DISTANCE
     /\ Eligible) => polpc # "done"

----------------------------------------------------------------------------
(* C9 *)

\* C9: when the policy re-reads the door position after its actuation,
\* door_error becomes true if and only if the door is still open at that
\* moment (the sensor reads less than DOOR_DISTANCE).
C9_ErrorIffStillOpen ==
    [][check_open_time_reread =>
            (door_error' = TRUE <=> distance < DOOR_DISTANCE)]_vars

----------------------------------------------------------------------------
(* C10 *)

\* C10: the policy keeps being evaluated for the lifetime of the process, so
\* that an open door in the close window, with no error and no motion, is
\* eventually closed: whenever these conditions hold, the check_open_time task
\* is still there to evaluate them, it has not returned for good.
C10_PolicyIsEvaluatedWhileEligible == Eligible => polpc # "done"

----------------------------------------------------------------------------
(* C11 *)

\* C11: each remote request produces exactly one activation; a redelivery of
\* the same retained "True" before the "False" has reached the broker does not
\* schedule a second one.  Stated on the activations in flight: there are
\* never more activations made for door requests than door requests made.
C11_OneActivationPerRequest == RemoteInFlight <= broker.requests

----------------------------------------------------------------------------
(* C12 *)

\* the operation at position i of the last step, and how it ended
OpAt(i, op) == i \in 1 .. Len(linkops) /\ linkops[i] = op
Sends(i) == OpAt(i, "publish") \/ OpAt(i, "loop")

\* C12: in publish_to_mqtt and in an iteration of mqtt_client_loop, a protocol
\* failure of is_connected() is followed by exactly one reconnect(), and
\* reconnect() is called for nothing else; a reconnect() that fails, with either
\* exception, restarts the device at once; otherwise publish() or loop() is
\* attempted, once, and its failure restarts the device; the call or iteration
\* ends normally only if its publish() or loop() succeeded.
C12_ReconnectThenSendOrRestart ==
    /\ Len(linkres) = Len(linkops)
    /\ \A i \in 1 .. Len(linkops) :
          /\ (OpAt(i, "is_connected") /\ linkres[i] = "mmqtt")
                => OpAt(i + 1, "reconnect")
          /\ OpAt(i, "reconnect")
                => /\ OpAt(i - 1, "is_connected") /\ linkres[i - 1] = "mmqtt"
                   /\ linkres[i] # "ok" => (i = Len(linkops) /\ phase = "reset")
                   /\ linkres[i] = "ok" => Sends(i + 1)
          /\ (OpAt(i, "is_connected") /\ linkres[i] = "ok") => Sends(i + 1)
          /\ Sends(i)
                => /\ ~Sends(i + 1)
                   /\ linkres[i] # "ok" => (i = Len(linkops) /\ phase = "reset")
    /\ (phase = "running" /\ linkops # << >>)
          => (Sends(Len(linkops)) /\ linkres[Len(linkops)] = "ok")

\* a publish_to_mqtt that reconnected and published, and the device runs on
C12_Witness ==
    /\ linkops = << "is_connected", "reconnect", "publish" >>
    /\ linkres = << "mmqtt", "ok", "ok" >>
    /\ pubcalls # << >>
    /\ phase = "running"

----------------------------------------------------------------------------
(* C13 *)

\* C13: a transport failure (OSError) of is_connected() restarts the device at
\* once: it is the last operation on the link before the restart, so there is
\* no reconnect(), publish() or loop() after it.
C13_TransportFailureRestartsAtOnce ==
    \A i \in 1 .. Len(linkops) :
        (OpAt(i, "is_connected") /\ linkres[i] = "oserror")
            => (i = Len(linkops) /\ phase = "reset")

\* a publish_to_mqtt whose is_connected() raised OSError
C13_Witness ==
    /\ linkops = << "is_connected" >>
    /\ linkres = << "oserror" >>
    /\ pubcalls # << >>
    /\ phase = "reset"

----------------------------------------------------------------------------
(* C14 *)

\* the sensors say: open, no error, nobody there
ClearToClose == door_status = "Open" /\ door_error = FALSE /\ motion = False

----------------------------------------------------------------------------
(* C15 *)

\* C15: with GARAGE_CLOSE_AFTER = 20 and GARAGE_CLOSE_BEFORE = 7 the door is
\* closed automatically only between 8pm and 7am: the policy starts no close at
\* an hour h with 7 <= h <= 19.
C15_NoPolicyCloseFrom7To19 ==
    [][Creates("policy") => ~(hour >= 7 /\ hour <= 19)]_vars

----------------------------------------------------------------------------
(* C16 *)

\* C16: every activate_opener invocation completes, and at its completion
\* pause_door_check is false and the relay is low, whether the door moved or
\* not.  Stated on the completing step (the return of line 61).
C16_CompletesReleased ==
    [][(\E i \in 1 .. Len(acts) : ActivateDone(i))
        => (pause_door_check' = FALSE /\ relay' = FALSE)]_vars

----------------------------------------------------------------------------
(* C17 *)

\* C17: motion goes from true to false only in an iteration of get_motion_state
\* in which the presence sensor is inactive and time.monotonic() is strictly
\* past motion_timeout, the time of the most recent trigger plus
\* MOTION_TIMEOUT; so motion is never false within MOTION_TIMEOUT of a trigger,
\* and every trigger moves the deadline forward.
C17_MotionClearsOnlyPastDeadline ==
    [][/\ (motion = True /\ motion' = False)
            => (get_motion_state /\ ~pir /\ now > motion_timeout)
       /\ motion' = False => now' > motion_timeout'
       /\ (get_motion_state /\ pir)
            => /\ motion' = True
               /\ motion_timeout' = now + MOTION_TIMEOUT
               /\ motion_timeout' >= motion_timeout]_vars

\* motion has been cleared after a trigger
C17_Witness ==
    /\ phase = "running"
    /\ motion = False
    /\ motion_timeout >= MOTION_TIMEOUT
    /\ now > motion_timeout

----------------------------------------------------------------------------
(* C18 *)

\* the activations the policy has created and that have not finished
PolicyInFlight == {i \in 1 .. Len(acts) : acts[i].by = "policy"}

\* C18: the policy re-reads the door position only when the actuation cycle it
\* started (2 s pulse plus DOOR_CLOSE_DELAY) has finished: at the re-read its
\* activation has completed and pause_door_check is false again.
C18_RereadAfterActuationCycle ==
    [][check_open_time_reread
        => (PolicyInFlight = {} /\ pause_door_check = FALSE)]_vars

----------------------------------------------------------------------------
(* C19 *)

\* C19: whenever an activation started by the policy drives the relay high,
\* garage_state.motion is still False.  Stated on the step that sets the relay
\* high (line 57) for such an activation.
C19_NoMotionWhenPolicyPulses ==
    [][(\E i \in PolicyInFlight : ActivateStart(i)) => motion = False]_vars

----------------------------------------------------------------------------
(* C20 *)

\* C20: the relay is high only while pause_door_check is true and an
\* activation is in flight; with no activation in flight the relay is low and
\* pause_door_check is false.
C20_RelayOnlyWhilePaused ==
    /\ relay => (pause_door_check /\ Started # {})
    /\ acts = << >> => (~relay /\ ~pause_door_check)

============================================================================
